---- MODULE Spec2Model ----
(***************************************************************************)
(* A model of the debate-rankings program: the identity resolver           *)
(* (player_utils.generate_player_id), the entry ingestion                  *)
(* (parse_debaters_from_tournament), the round feed (RankingSystem.        *)
(* run_round), the orchestration (update_from_tournament, run) and the     *)
(* ranking assembly (generate_rankings).                                   *)
(*                                                                         *)
(* Text is modelled as a sequence of one-character strings, so that        *)
(* str.lower, the substring test, split, strip, sort and the hex digest    *)
(* are computed rather than assumed.                                       *)
(***************************************************************************)
EXTENDS Integers, Sequences, FiniteSets, TLC

VARIABLES
    config,         \* self.config: tournaments, majors, multi_team_debaters
    format_dir,     \* self.format_dir, also the format tag of the resolver
    pc,             \* position of run(): "run", "rounds" or "done"
    tIdx,           \* number of tournaments of config whose update has begun
    entries,        \* entries.csv of the tournament being processed
    files,          \* round files of that tournament still to process
    debaters,       \* self.debaters: the rows of the debaters table
    ratings,        \* the engine's state: identity -> rating state
    addCalls,       \* how often glicko_model.add was called, per identity
    match_counter,  \* self.match_counter
    roundsDone,     \* number of run_round calls completed in this run
    doneFiles,      \* round files of the current tournament already processed
    roundTable,     \* the round table read by the last run_round
    updates,        \* the engine updates issued by the last run_round
    raised,         \* the error the last run_round reported
    rankings,       \* the rows written by generate_rankings
    probe,          \* two registrations handed to generate_player_id
    ids             \* the identities generate_player_id returned for them

vars == <<config, format_dir, pc, tIdx, entries, files, debaters, ratings,
          addCalls, match_counter, roundsDone, doneFiles, roundTable, updates,
          raised, rankings, probe, ids>>

runVars == <<config, format_dir, pc, tIdx, entries, files, debaters, ratings,
             addCalls, match_counter, roundsDone, doneFiles, roundTable,
             updates, raised, rankings>>

idVars == <<probe, ids>>

-----------------------------------------------------------------------------
(* Bounds of the model.                                                    *)

MaxEntries == 2       \* rows of an entries.csv
MaxRoundFiles == 2    \* round files of one tournament
MaxRows == 2          \* rows of a round table
MaxPartners == 2      \* names joined by "&" in one Entry field

-----------------------------------------------------------------------------
(* Python text.                                                            *)

\* ord(): the code points of the characters the model uses.
Ord ==
    " " :> 32 @@ "&" :> 38 @@ "." :> 46 @@
    "0" :> 48 @@ "1" :> 49 @@ "2" :> 50 @@ "3" :> 51 @@ "4" :> 52 @@
    "5" :> 53 @@ "6" :> 54 @@ "7" :> 55 @@ "8" :> 56 @@ "9" :> 57 @@
    "A" :> 65 @@ "B" :> 66 @@ "C" :> 67 @@ "D" :> 68 @@ "E" :> 69 @@ "F" :> 70 @@ "G" :> 71 @@
    "I" :> 73 @@ "N" :> 78 @@ "P" :> 80 @@ "Q" :> 81 @@ "R" :> 82 @@
    "S" :> 83 @@ "T" :> 84 @@ "V" :> 86 @@ "X" :> 88 @@ "Y" :> 89 @@
    "a" :> 97 @@ "b" :> 98 @@ "c" :> 99 @@ "d" :> 100 @@ "e" :> 101 @@
    "f" :> 102 @@ "g" :> 103 @@ "i" :> 105 @@ "n" :> 110 @@ "p" :> 112 @@
    "q" :> 113 @@ "r" :> 114 @@ "s" :> 115 @@ "t" :> 116 @@ "v" :> 118 @@
    "x" :> 120 @@ "y" :> 121

Chr(n) == CHOOSE c \in DOMAIN Ord : Ord[c] = n

\* str.lower() on one character: A-Z go to a-z, everything else stays.
LowerChar(c) == IF Ord[c] >= 65 /\ Ord[c] <= 90 THEN Chr(Ord[c] + 32) ELSE c

\* str.lower()
Lower(s) == [i \in 1..Len(s) |-> LowerChar(s[i])]

\* `needle in s` for strings
Contains(needle, s) ==
    \E i \in 1..(Len(s) - Len(needle) + 1) :
        SubSeq(s, i, i + Len(needle) - 1) = needle

\* str < str: lexicographic order by code point
StrLess(a, b) ==
    \E k \in 1..Len(b) :
        /\ k <= Len(a) + 1
        /\ \A j \in 1..(k - 1) : a[j] = b[j]
        /\ IF k = Len(a) + 1 THEN TRUE ELSE Ord[a[k]] < Ord[b[k]]

\* str.split(sep) for a one-character separator
RECURSIVE Split(_, _)
Split(s, sep) ==
    IF \A i \in 1..Len(s) : s[i] # sep
    THEN <<s>>
    ELSE LET k == CHOOSE i \in 1..Len(s) :
                      s[i] = sep /\ \A j \in 1..(i - 1) : s[j] # sep
         IN  <<SubSeq(s, 1, k - 1)>> \o Split(SubSeq(s, k + 1, Len(s)), sep)

\* str.strip(): the whitespace of the model is the space
RECURSIVE Strip(_)
Strip(s) ==
    IF s = <<>> THEN s
    ELSE IF s[1] = " " THEN Strip(Tail(s))
    ELSE IF s[Len(s)] = " " THEN Strip(SubSeq(s, 1, Len(s) - 1))
    ELSE s

\* list.sort() of a list of strings: insertion into the sorted prefix
RECURSIVE InsertSorted(_, _)
InsertSorted(x, sorted) ==
    IF sorted = <<>> THEN <<x>>
    ELSE IF StrLess(x, sorted[1]) THEN <<x>> \o sorted
    ELSE <<sorted[1]>> \o InsertSorted(x, Tail(sorted))

RECURSIVE Sort(_)
Sort(arr) ==
    IF arr = <<>> THEN <<>>
    ELSE InsertSorted(arr[Len(arr)], Sort(SubSeq(arr, 1, Len(arr) - 1)))

\* "".join(list)
RECURSIVE Join(_)
Join(arr) == IF arr = <<>> THEN <<>> ELSE arr[1] \o Join(Tail(arr))

HexDigits ==
    <<"0", "1", "2", "3", "4", "5", "6", "7", "8", "9", "a", "b", "c", "d", "e", "f">>

\* hashlib.sha256(combined.encode()).hexdigest(): a text over 0-9a-f that is
\* a function of the bytes hashed.  SHA-256 is taken to be collision-free on
\* the inputs of a run; the digest is modelled by the hex form of the bytes,
\* which keeps both the alphabet and the injectivity.
RECURSIVE Sha256Hex(_)
Sha256Hex(s) ==
    IF s = <<>> THEN <<>>
    ELSE <<HexDigits[(Ord[s[1]] \div 16) + 1], HexDigits[(Ord[s[1]] % 16) + 1]>>
             \o Sha256Hex(Tail(s))

-----------------------------------------------------------------------------
(* player_utils.generate_player_id                                         *)

HSLD == <<"h", "s", "l", "d">>
CPD == <<"c", "p", "d">>

\* The paired-format branch without the sort of line 27.
PairedCombinedUnsorted(institution, full_name) ==
    LET name_arr == Split(full_name, "&")
        clean_name_arr == [i \in 1..Len(name_arr) |-> Strip(name_arr[i])]
    IN  institution \o Join(clean_name_arr)

PairedCombined(institution, full_name) ==
    LET name_arr == Split(full_name, "&")
        clean_name_arr == [i \in 1..Len(name_arr) |-> Strip(name_arr[i])]
    IN  institution \o Join(Sort(clean_name_arr))

\* The single-competitor branch without the multi-team test of line 15.
SingleCombinedNoMerge(institution, full_name, multi_team_debaters) ==
    institution \o full_name

SingleCombined(institution, full_name, multi_team_debaters) ==
    IF full_name \in multi_team_debaters
    THEN full_name
    ELSE institution \o full_name

generate_player_id(institution, full_name, multi_team_debaters, format) ==
    Sha256Hex(IF format = HSLD
              THEN SingleCombined(institution, full_name, multi_team_debaters)
              ELSE PairedCombined(institution, full_name))

\* create_player_hashes: the entries with their "hash" column
create_player_hashes(table, multi_team_debaters, format) ==
    [i \in 1..Len(table) |->
        [Institution |-> table[i].Institution,
         Entry       |-> table[i].Entry,
         Code        |-> table[i].Code,
         hash        |-> generate_player_id(table[i].Institution, table[i].Entry,
                                            multi_team_debaters, format)]]

-----------------------------------------------------------------------------
(* The rating engine (skelo's Glicko2Model) as the program uses it: add,    *)
(* update and get.  The engine is a library outside the repository; its    *)
(* state is kept as the record of what it was fed (wins and losses of each *)
(* identity), and its numbers are a deterministic function of that record  *)
(* in which every never-played identity has the same default state.        *)

InitialRating == [w |-> 0, l |-> 0]

EmptyMap == [h \in {} |-> 0]

\* glicko_model.add(hash): sets the identity's state to the default
EngineAdd(eng, h) ==
    [ratings  |-> (h :> InitialRating) @@ eng.ratings,
     addCalls |-> (h :> (IF h \in DOMAIN eng.addCalls THEN eng.addCalls[h] + 1 ELSE 1))
                      @@ eng.addCalls]

\* glicko_model.update(winner, loser, timestamp)
EngineUpdate(r, winner, loser) ==
    LET r1 == [h \in DOMAIN r |-> IF h = winner THEN [r[h] EXCEPT !.w = @ + 1] ELSE r[h]]
    IN  [h \in DOMAIN r1 |-> IF h = loser THEN [r1[h] EXCEPT !.l = @ + 1] ELSE r1[h]]

\* glicko_model.get(hash)["rating"][0] and [1]
Mu(r) == 1500 + 100 * (r.w - r.l)
Phi(r) == IF r.w + r.l >= 6 THEN 50 ELSE 350 - 50 * (r.w + r.l)

\* len(glicko_model.ratings.get(hash, [])) - 1
MatchCount(r) == r.w + r.l

-----------------------------------------------------------------------------
(* player_utils.parse_debaters_from_tournament                             *)

HashColumn(table) == {table[i].hash : i \in 1..Len(table)}

\* The loop body without the membership test of lines 79-84.
ParseRowNoGuard(st, team_row) ==
    [debaters |-> Append(st.debaters, team_row),
     eng      |-> EngineAdd(st.eng, team_row.hash)]

\* The loop body that registers with the engine but only when the table is empty.
ParseRowFirstOnly(st, team_row) ==
    IF st.debaters = <<>>
    THEN [debaters |-> Append(st.debaters, team_row),
          eng      |-> EngineAdd(st.eng, team_row.hash)]
    ELSE st

\* One iteration of the loop of lines 76-86.
ParseRow(st, team_row) ==
    LET is_already_in_debaters ==
            IF st.debaters = <<>> THEN FALSE
            ELSE team_row.hash \in HashColumn(st.debaters)
    IN  IF ~is_already_in_debaters
        THEN [debaters |-> Append(st.debaters, team_row),
              eng      |-> EngineAdd(st.eng, team_row.hash)]
        ELSE st

RECURSIVE ParseLoop(_, _)
ParseLoop(st, teams) ==
    IF teams = <<>> THEN st
    ELSE ParseLoop(ParseRow(st, teams[1]), Tail(teams))

parse_debaters_from_tournament(table, st, multi_team_debaters, format) ==
    ParseLoop(st, create_player_hashes(table, multi_team_debaters, format))

-----------------------------------------------------------------------------
(* RankingSystem.create_code_to_hash_dict, replace_codes_with_hashes       *)

\* A float NaN, what Series.map leaves for a code that is no key.
NaN == <<"float:nan">>

\* str(x) of a mapped cell
Str(x) == IF x = NaN THEN <<"n", "a", "n">> ELSE x

\* The dict of lines 80-84: a later row of the same Code overwrites an earlier.
RECURSIVE CodeToHash(_)
CodeToHash(teams) ==
    IF teams = <<>> THEN EmptyMap
    ELSE (teams[Len(teams)].Code :> teams[Len(teams)].hash)
             @@ CodeToHash(SubSeq(teams, 1, Len(teams) - 1))

create_code_to_hash_dict(table, multi_team_debaters, format) ==
    CodeToHash(create_player_hashes(table, multi_team_debaters, format))

MapCode(code_to_hash, code) ==
    IF code \in DOMAIN code_to_hash THEN code_to_hash[code] ELSE NaN

replace_codes_with_hashes(round_data, code_to_hash) ==
    [i \in 1..Len(round_data) |->
        [Aff |-> MapCode(code_to_hash, round_data[i].Aff),
         Neg |-> MapCode(code_to_hash, round_data[i].Neg),
         Win |-> round_data[i].Win]]

-----------------------------------------------------------------------------
(* RankingSystem.run_round                                                 *)

\* The test of lines 51-56 on the two mapped cells.
Skipped(aff_hash, neg_hash) ==
    \/ Contains(<<"n", "a", "n">>, aff_hash)
    \/ Contains(<<"n", "a", "n">>, neg_hash)
    \/ Contains(<<"b", "y", "e">>, Lower(aff_hash))
    \/ Contains(<<"b", "y", "e">>, Lower(neg_hash))

Update(winner, loser, ts, i, known) ==
    [winner |-> winner, loser |-> loser, period |-> ts, row |-> i,
     known |-> {winner, loser} \subseteq known]

\* One pass of the body of the weight loop, lines 62-66.
OncePerRow(aff_hash, neg_hash, winner, ts, i, known) ==
    (IF Contains(<<"a", "f", "f">>, winner)
     THEN <<Update(aff_hash, neg_hash, ts, i, known)>> ELSE <<>>)
    \o
    (IF Contains(<<"n", "e", "g">>, winner)
     THEN <<Update(neg_hash, aff_hash, ts, i, known)>> ELSE <<>>)

RECURSIVE Repeat(_, _)
Repeat(s, n) == IF n = 0 THEN <<>> ELSE s \o Repeat(s, n - 1)

\* The engine calls of one row, lines 46-66.
RowUpdates(round_row, weight, ts, i, known) ==
    LET aff_hash == Str(round_row.Aff)
        neg_hash == Str(round_row.Neg)
        winner   == Lower(round_row.Win)
    IN  IF Skipped(aff_hash, neg_hash) THEN <<>>
        ELSE Repeat(OncePerRow(aff_hash, neg_hash, winner, ts, i, known), weight)

\* The round replayed as a whole, weight times, instead of row by row.
RECURSIVE BatchUpdatesFrom(_, _, _, _, _)
BatchUpdatesFrom(round_data, weight, ts, i, known) ==
    IF weight = 0 THEN <<>>
    ELSE LET RECURSIVE Pass(_)
             Pass(k) == IF k > Len(round_data) THEN <<>>
                        ELSE RowUpdates(round_data[k], 1, ts, k, known) \o Pass(k + 1)
         IN  Pass(i) \o BatchUpdatesFrom(round_data, weight - 1, ts, i, known)

\* The engine calls of the loop of lines 45-66, in the order they are issued.
RECURSIVE RoundUpdatesFrom(_, _, _, _, _)
RoundUpdatesFrom(round_data, weight, ts, i, known) ==
    IF i > Len(round_data) THEN <<>>
    ELSE RowUpdates(round_data[i], weight, ts, i, known)
             \o RoundUpdatesFrom(round_data, weight, ts, i + 1, known)

RECURSIVE ApplyUpdates(_, _)
ApplyUpdates(r, us) ==
    IF us = <<>> THEN r
    ELSE ApplyUpdates(EngineUpdate(r, us[1].winner, us[1].loser), Tail(us))

\* The counter advanced once per issued update instead of once per round.
CounterAfterRoundPerMatch(counter, issued) == counter + Len(issued)

\* Line 69.
CounterAfterRound(counter, issued) == counter + 1

-----------------------------------------------------------------------------
(* determine_tournament_weight.determine_weight                            *)

\* Every tournament weighted as a regular one.
determine_weight_regular(tournament_name, majors) == 1

determine_weight(tournament_name, majors) ==
    IF tournament_name \in majors THEN 2 ELSE 1

-----------------------------------------------------------------------------
(* RankingSystem.update_from_tournament: the directory listing             *)

EndsWith(s, suffix) ==
    Len(s) >= Len(suffix) /\ SubSeq(s, Len(s) - Len(suffix) + 1, Len(s)) = suffix

StartsWith(s, prefix) ==
    Len(s) >= Len(prefix) /\ SubSeq(s, 1, Len(prefix)) = prefix

DotCsv == <<".", "c", "s", "v">>

RECURSIVE SetToSeq(_)
SetToSeq(S) ==
    IF S = {} THEN <<>>
    ELSE LET x == CHOOSE y \in S : TRUE IN <<x>> \o SetToSeq(S \ {x})

\* Lines 115-121: the round files of the tournament folder, sorted.
RoundFiles(listing) ==
    Sort(SetToSeq({f \in listing :
                    EndsWith(f, DotCsv) /\ ~StartsWith(f, <<"e", "n", "t", "r", "i", "e", "s">>)}))

-----------------------------------------------------------------------------
(* RankingSystem.generate_rankings                                         *)

\* Lines 139-166: one row per row of the debaters table.
RankingsData(table, r) ==
    [i \in 1..Len(table) |->
        [School         |-> table[i].Institution,
         Name           |-> table[i].Entry,
         AdjustedRating |-> Mu(r[table[i].hash]) - 2 * Phi(r[table[i].hash]),
         Deviation      |-> Phi(r[table[i].hash]),
         Matches        |-> MatchCount(r[table[i].hash]),
         Rating         |-> Mu(r[table[i].hash]),
         Hash           |-> table[i].hash]]

IndexOrders(n) ==
    {p \in [1..n -> 1..n] : \A i, j \in 1..n : i # j => p[i] # p[j]}

\* sort_values with the default ascending=True: the rows in any order that is
\* non-decreasing in the adjusted rating.
SortValuesAscending(data) ==
    {[i \in 1..Len(data) |-> data[p[i]]] : p \in
        {q \in IndexOrders(Len(data)) :
            \A i \in 1..(Len(data) - 1) :
                data[q[i]].AdjustedRating <= data[q[i + 1]].AdjustedRating}}

\* Line 169: sort_values(by="Adjusted Rating", ascending=False) with the default
\* sort kind, which is not stable: the rows in any order that is non-increasing
\* in the adjusted rating.
SortValues(data) ==
    {[i \in 1..Len(data) |-> data[p[i]]] : p \in
        {q \in IndexOrders(Len(data)) :
            \A i \in 1..(Len(data) - 1) :
                data[q[i]].AdjustedRating >= data[q[i + 1]].AdjustedRating}}

\* Line 171: the Rank column
InsertRank(rows) ==
    [i \in 1..Len(rows) |->
        [Rank           |-> i,
         School         |-> rows[i].School,
         Name           |-> rows[i].Name,
         AdjustedRating |-> rows[i].AdjustedRating,
         Deviation      |-> rows[i].Deviation,
         Matches        |-> rows[i].Matches,
         Rating         |-> rows[i].Rating,
         Hash           |-> rows[i].Hash]]

-----------------------------------------------------------------------------
(* The inputs of a run.                                                    *)

Seqs(S, n) == UNION {[1..k -> S] : k \in 0..n}

P == <<"P">>
Q == <<"Q">>
X == <<"X">>
Y == <<"Y">>
Code1 == <<"1">>
Code2 == <<"2">>
Bye == <<"B", "y", "e">>

EntryRow(institution, entry, code) ==
    [Institution |-> institution, Entry |-> entry, Code |-> code]

\* The rows an entries.csv is made of when one round is looked at closely: X
\* entered under two affiliations, and an entry whose Code is the bye marker.
EntryRows ==
    {EntryRow(P, X, Code1), EntryRow(Q, X, Code2), EntryRow(P, Y, Bye)}

\* The rows an entries.csv is made of when whole seasons are run.
SeasonEntryRows == {EntryRow(P, X, Code1), EntryRow(Q, X, Code2)}

EntriesCsv == <<"e", "n", "t", "r", "i", "e", "s", ".", "c", "s", "v">>

RoundFileNames ==
    {<<"P", "1">> \o DotCsv, <<"P", "2">> \o DotCsv, <<"E", "1">> \o DotCsv}

RoundRow(aff, neg, win) == [Aff |-> aff, Neg |-> neg, Win |-> win]

Outcomes ==
    {<<"A", "f", "f">>, <<"N", "E", "G">>,
     <<"A", "f", "f", " ", "N", "e", "g">>, <<"T", "i", "e">>}

\* The pairings of a round table: two entries, an entry against itself, a bye.
Pairings == {<<Code1, Code2>>, <<Code1, Code1>>, <<Bye, Code1>>}

\* The rows of a round table when one round is looked at closely.
RoundRows == {RoundRow(p[1], p[2], w) : p \in Pairings, w \in Outcomes}

\* The rows of a round table when whole seasons are run.
SeasonRows == {RoundRow(Code1, Code2, <<"A", "f", "f">>)}

\* The rows of an entries.csv when the rounds of one tournament are run: two
\* competitors that are different under both sets of rules.
TournamentEntryRows == {EntryRow(P, X, Code1), EntryRow(Q, Y, Code2)}

\* The rows of a round table then: one pairing, won by either side.
TournamentRows ==
    {RoundRow(Code1, Code2, <<"A", "f", "f">>),
     RoundRow(Code1, Code2, <<"N", "E", "G">>)}

TournamentNames == {"greenhill", "loyola"}

Distinct(seq) == \A i, j \in 1..Len(seq) : i # j => seq[i] # seq[j]

\* A config file: the tournaments in order, each listed once, the majors, the
\* multi-team names.
Configs(lengths) ==
    {[tournaments         |-> ts,
      majors              |-> {"greenhill"},
      multi_team_debaters |-> {X}] :
        ts \in {t \in Seqs(TournamentNames, Cardinality(TournamentNames)) :
                    Distinct(t) /\ Len(t) \in lengths}}

NoError == "none"

NoProbe == [format |-> <<>>]

-----------------------------------------------------------------------------
(* RankingSystem.__init__ and the steps of RankingSystem.run               *)

InitRun(configs) ==
    /\ config \in configs
    /\ format_dir \in {HSLD, CPD}
    /\ pc = "run"
    /\ tIdx = 0
    /\ entries = <<>>
    /\ files = <<>>
    /\ debaters = <<>>
    /\ ratings = EmptyMap
    /\ addCalls = EmptyMap
    /\ match_counter = 0
    /\ roundsDone = 0
    /\ doneFiles = <<>>
    /\ roundTable = <<>>
    /\ updates = <<>>
    /\ raised = NoError
    /\ rankings = <<>>

\* update_from_tournament up to its loop over the round files: the entries
\* are registered, the round files listed and sorted.
UpdateFromTournament(rows, names, maxFiles) ==
    /\ pc = "run"
    /\ tIdx < Len(config.tournaments)
    /\ \E n \in 0..MaxEntries, rounds \in SUBSET names :
      \E table \in [1..n -> rows] :
        /\ Cardinality(rounds) <= maxFiles
        /\ LET st == parse_debaters_from_tournament(
                         table,
                         [debaters |-> debaters,
                          eng |-> [ratings |-> ratings, addCalls |-> addCalls]],
                         config.multi_team_debaters, format_dir)
               sorted == RoundFiles({EntriesCsv} \cup rounds)
           IN  /\ entries' = table
               /\ debaters' = st.debaters
               /\ ratings' = st.eng.ratings
               /\ addCalls' = st.eng.addCalls
               /\ files' = sorted
               /\ pc' = IF sorted = <<>> THEN "run" ELSE "rounds"
    /\ tIdx' = tIdx + 1
    /\ doneFiles' = <<>>
    /\ roundTable' = <<>>
    /\ updates' = <<>>
    /\ UNCHANGED <<config, format_dir, match_counter, roundsDone, raised, rankings>>
    /\ UNCHANGED idVars

\* One iteration of the loop of update_from_tournament: run_round on the next
\* round file, whose table is round_data.
RunRound(rows) ==
    /\ pc = "rounds"
    /\ files # <<>>
    /\ LET tournament == config.tournaments[tIdx]
           weight == determine_weight(tournament, config.majors)
           code_to_hash == create_code_to_hash_dict(
                               entries, config.multi_team_debaters, format_dir)
       IN
       \E n \in 0..MaxRows : \E round_data \in [1..n -> rows] :
        LET mapped == replace_codes_with_hashes(round_data, code_to_hash)
            round_timestamp == match_counter
            issued == RoundUpdatesFrom(mapped, weight, round_timestamp, 1,
                                       DOMAIN ratings)
        IN  /\ roundTable' = round_data
            /\ updates' = issued
            /\ ratings' = ApplyUpdates(ratings, issued)
            /\ match_counter' = CounterAfterRound(match_counter, issued)
    /\ raised' = NoError
    /\ roundsDone' = roundsDone + 1
    /\ doneFiles' = Append(doneFiles, files[1])
    /\ files' = Tail(files)
    /\ pc' = IF Tail(files) = <<>> THEN "run" ELSE "rounds"
    /\ UNCHANGED <<config, format_dir, tIdx, entries, debaters, addCalls, rankings>>
    /\ UNCHANGED idVars

\* generate_rankings, once every tournament of the config is processed.  With
\* an empty debaters table the frame has no "Adjusted Rating" column and
\* sort_values raises.
GenerateRankings ==
    /\ pc = "run"
    /\ tIdx = Len(config.tournaments)
    /\ IF debaters = <<>>
       THEN /\ pc' = "failed"
            /\ rankings' = rankings
       ELSE /\ pc' = "done"
            /\ \E sorted \in SortValues(RankingsData(debaters, ratings)) :
                   rankings' = InsertRank(sorted)
    /\ UNCHANGED <<config, format_dir, tIdx, entries, files, debaters, ratings,
                   addCalls, match_counter, roundsDone, doneFiles, roundTable,
                   updates, raised>>
    /\ UNCHANGED idVars

\* A run of the ranking system over a season.
Init ==
    /\ InitRun(Configs(0..Cardinality(TournamentNames)))
    /\ probe = NoProbe
    /\ ids = <<>>

Next ==
    \/ UpdateFromTournament(SeasonEntryRows, RoundFileNames, MaxRoundFiles)
    \/ RunRound(SeasonRows)
    \/ GenerateRankings

Spec == Init /\ [][Next]_vars

\* One tournament with at most one round file, looked at closely: the entries
\* and the round table are drawn from the larger sets of rows.
InitRound ==
    /\ InitRun(Configs({1}))
    /\ probe = NoProbe
    /\ ids = <<>>

NextRound ==
    \/ UpdateFromTournament(EntryRows, {<<"P", "1">> \o DotCsv}, 1)
    \/ RunRound(RoundRows)

SpecRound == InitRound /\ [][NextRound]_vars

\* One tournament, major or regular, with all its rounds: each round table
\* pairs the two competitors, either side winning.
InitTournament ==
    /\ InitRun(Configs({1}))
    /\ probe = NoProbe
    /\ ids = <<>>

NextTournament ==
    \/ UpdateFromTournament(TournamentEntryRows, RoundFileNames, MaxRoundFiles)
    \/ RunRound(TournamentRows)

SpecTournament == InitTournament /\ [][NextTournament]_vars

-----------------------------------------------------------------------------
(* generate_player_id on its own: two registrations are drawn, the second  *)
(* listing the partners of the first in another order and with other       *)
(* spacing, and both are resolved.                                         *)

PartnerNames == {X, Y, <<"X", "a">>}

Spaces(n) == [i \in 1..n |-> " "]

\* The Entry field that lists the partners in the given order, each padded.
RECURSIVE Listing(_, _)
Listing(partners, pad) ==
    IF Len(partners) = 1
    THEN Spaces(pad.l) \o partners[1] \o Spaces(pad.r)
    ELSE Spaces(pad.l) \o partners[1] \o Spaces(pad.r) \o <<"&">>
             \o Listing(Tail(partners), pad)

Pads == [l : 0..1, r : 0..1]

\* The two registrations: the institutions, the partners, the order in which
\* the second registration lists them, and the padding of each listing.
Probe(i1, i2, ps, o, pad1, pad2, m, f) ==
    [institution1 |-> i1,
     institution2 |-> i2,
     partners     |-> ps,
     order        |-> o,
     full_name1   |-> Listing(ps, pad1),
     full_name2   |-> Listing([k \in 1..Len(ps) |-> ps[o[k]]], pad2),
     multi        |-> m,
     format       |-> f]

InitId ==
    /\ InitRun(Configs({0}))
    /\ \E ps \in Seqs(PartnerNames, MaxPartners) \ {<<>>} :
        \E o \in IndexOrders(Len(ps)) :
        \E i1 \in {P, Q}, i2 \in {P, Q}, pad1 \in Pads, pad2 \in Pads :
        \E m \in {{}, {X}, {X, Y}} :
            probe = Probe(i1, i2, ps, o, pad1, pad2, m, format_dir)
    /\ ids = <<>>

\* Both registrations are resolved.
Resolve ==
    /\ ids = <<>>
    /\ ids' = <<generate_player_id(probe.institution1, probe.full_name1,
                                   probe.multi, probe.format),
                generate_player_id(probe.institution2, probe.full_name2,
                                   probe.multi, probe.format)>>
    /\ UNCHANGED probe
    /\ UNCHANGED runVars

NextId == Resolve

SpecId == InitId /\ [][NextId]_vars

-----------------------------------------------------------------------------
(* Properties of generate_player_id.                                       *)

\* C8: in the paired format (any format tag other than "hsld") the identity
\* does not depend on the order in which the partner names are listed nor on
\* the whitespace around them: for one institution, two listings of the same
\* partners resolve to the same identity.
C8_PartnerOrderIrrelevant ==
    (ids # <<>> /\ probe.format # HSLD /\ probe.institution1 = probe.institution2)
        => ids[1] = ids[2]

\* Two different partners listed in opposite orders with different spacing.
C8_Witness ==
    /\ ids # <<>>
    /\ probe.format = CPD
    /\ probe.institution1 = probe.institution2
    /\ Len(probe.partners) = 2
    /\ probe.partners[1] # probe.partners[2]
    /\ probe.order[1] = 2
    /\ probe.full_name1 = <<" ", "Y", " ", "&", " ", "X", " ">>
    /\ probe.full_name2 = <<"X", "&", "Y">>
    /\ ids[1] = ids[2]

\* C9: under the single-competitor rules, a name of the multi-team set has
\* the same identity under two different affiliations, and a name outside
\* the set has different identities under two different affiliations.
C9_MultiTeamMerge ==
    (/\ ids # <<>>
     /\ probe.format = HSLD
     /\ probe.full_name1 = probe.full_name2
     /\ probe.institution1 # probe.institution2)
        => IF probe.full_name1 \in probe.multi
           THEN ids[1] = ids[2]
           ELSE ids[1] # ids[2]

\* The multi-team name X resolved under the affiliations P and Q.
C9_Witness ==
    /\ ids # <<>>
    /\ probe.format = HSLD
    /\ probe.full_name1 = X
    /\ probe.full_name2 = X
    /\ X \in probe.multi
    /\ probe.institution1 = P
    /\ probe.institution2 = Q
    /\ ids[1] = ids[2]

-----------------------------------------------------------------------------
(* Properties of a run.  The round the properties speak of is the one the  *)
(* last run_round processed: roundTable is its table, entries the entry    *)
(* list of its tournament, updates the engine updates it issued.           *)

\* The keys of the tournament's code-to-identity map.
MapKeys == {entries[k].Code : k \in 1..Len(entries)}

\* The weight of the tournament being processed.
RoundWeight == IF config.tournaments[tIdx] \in config.majors THEN 2 ELSE 1

NamesAff(win) == Contains(<<"a", "f", "f">>, Lower(win))
NamesNeg(win) == Contains(<<"n", "e", "g">>, Lower(win))

\* The outcome text names neither side, or both.
Ambiguous(win) == NamesAff(win) = NamesNeg(win)

HasBye(code) == Contains(<<"b", "y", "e">>, Lower(code))

\* The engine updates issued for row i of the round table.
UpdatesOfRow(i) ==
    LET OfRow(u) == u.row = i IN SelectSeq(updates, OfRow)

\* C1: a round row whose outcome text contains neither "aff" nor "neg", or
\* both, is never applied as a match and is reported as AmbiguousOutcome.
\* The rows looked at are those the drop rules keep (both codes are keys of
\* the map, neither is a bye), so that the outcome text alone decides.
C1_AmbiguousOutcomeReported ==
    \A i \in 1..Len(roundTable) :
        (/\ Ambiguous(roundTable[i].Win)
         /\ {roundTable[i].Aff, roundTable[i].Neg} \subseteq MapKeys
         /\ ~HasBye(roundTable[i].Aff)
         /\ ~HasBye(roundTable[i].Neg))
            => /\ UpdatesOfRow(i) = <<>>
               /\ raised = "AmbiguousOutcome"

\* C2: a row with a side whose code is no key of the code-to-identity map,
\* or whose raw code contains "bye" in any case (also when that code is a key
\* of the map), gets no engine update and raises no error.
C2_ByeAndUnmappedRowsDropped ==
    \A i \in 1..Len(roundTable) :
        (\/ roundTable[i].Aff \notin MapKeys
         \/ roundTable[i].Neg \notin MapKeys
         \/ HasBye(roundTable[i].Aff)
         \/ HasBye(roundTable[i].Neg))
            => /\ UpdatesOfRow(i) = <<>>
               /\ raised = NoError

\* C3: every engine update issued by run_round has a winner identity that
\* differs from its loser identity.
C3_WinnerIsNotLoser ==
    \A j \in 1..Len(updates) : updates[j].winner # updates[j].loser

\* C4: over the tournaments ingested, add is called at most once per
\* identity, the debaters table holds exactly one row per registered
\* identity, and the rating state of a registered identity is never reset:
\* no step makes it lose a match already counted.
C4_Invariant ==
    /\ \A h \in DOMAIN addCalls : addCalls[h] = 1
    /\ DOMAIN addCalls = DOMAIN ratings
    /\ HashColumn(debaters) = DOMAIN ratings
    /\ \A i, j \in 1..Len(debaters) : i # j => debaters[i].hash # debaters[j].hash

C4_NeverReset ==
    \A h \in DOMAIN ratings :
        /\ h \in DOMAIN ratings'
        /\ ratings'[h].w >= ratings[h].w
        /\ ratings'[h].l >= ratings[h].l

C4_RegisteredOnce == []C4_Invariant /\ [][C4_NeverReset]_vars

\* The second tournament's entries have just been ingested, they list an
\* identity that played in the first tournament, and one identity twice.
C4_Witness ==
    /\ tIdx = 2
    /\ doneFiles = <<>>
    /\ Len(entries) = 2
    /\ Cardinality(HashColumn(create_player_hashes(
           entries, config.multi_team_debaters, format_dir))) = 1
    /\ \E h \in HashColumn(create_player_hashes(
           entries, config.multi_team_debaters, format_dir)) :
           h \in DOMAIN ratings /\ MatchCount(ratings[h]) > 0

\* C5: each identity passed to an engine update was registered with add
\* before, and belongs to the entry list of the round's own tournament.
C5_UpdatesKnowTheirCompetitors ==
    \A j \in 1..Len(updates) :
        /\ updates[j].known
        /\ {updates[j].winner, updates[j].loser}
               \subseteq {generate_player_id(entries[k].Institution, entries[k].Entry,
                                             config.multi_team_debaters, format_dir) :
                              k \in 1..Len(entries)}

\* A round of the second tournament issued an update between two identities,
\* one of which the first tournament had not registered.
C5_Witness ==
    /\ tIdx = 2
    /\ updates # <<>>
    /\ updates[1].winner # updates[1].loser
    /\ \E i \in 1..Len(debaters) :
           /\ debaters[i].hash \in {updates[1].winner, updates[1].loser}
           /\ i > 1
           /\ debaters[i].hash = debaters[Len(debaters)].hash

\* The identity a code of the round table resolves to: that of the last entry
\* with the code.
IdentityOf(code) ==
    LET k == CHOOSE n \in 1..Len(entries) :
                 /\ entries[n].Code = code
                 /\ \A m \in (n + 1)..Len(entries) : entries[m].Code # code
    IN  generate_player_id(entries[k].Institution, entries[k].Entry,
                           config.multi_team_debaters, format_dir)

\* The rows of the round table that are valid matches: both codes are keys of
\* the map, neither is a bye, the two sides are different competitors, and
\* the outcome text names exactly one side.
ValidRows ==
    {i \in 1..Len(roundTable) :
        /\ {roundTable[i].Aff, roundTable[i].Neg} \subseteq MapKeys
        /\ ~HasBye(roundTable[i].Aff)
        /\ ~HasBye(roundTable[i].Neg)
        /\ IdentityOf(roundTable[i].Aff) # IdentityOf(roundTable[i].Neg)
        /\ ~Ambiguous(roundTable[i].Win)}

\* The row numbers of the updates issued for valid matches, in issue order.
ValidUpdateRows ==
    LET OfValid(u) == u.row \in ValidRows
        us == SelectSeq(updates, OfValid)
    IN  [j \in 1..Len(us) |-> us[j].row]

\* The members of a set of numbers in increasing order.
RECURSIVE Ascending(_)
Ascending(S) ==
    IF S = {} THEN <<>>
    ELSE LET m == CHOOSE x \in S : \A y \in S : x <= y
         IN  <<m>> \o Ascending(S \ {m})

\* C6 as stated: the valid matches of a round are replayed as a batch, weight
\* times: m1..mn, m1..mn, all with the same period index.
C6_BatchReplayed ==
    roundTable # <<>>
        => /\ ValidUpdateRows = Repeat(Ascending(ValidRows), RoundWeight)
           /\ \A j, k \in 1..Len(updates) : updates[j].period = updates[k].period

\* C6 amended: each row is replayed weight times before the next row is
\* processed.  The updates come in row order; a row with a code that is no key
\* of the map has none; any other row has weight repetitions of its own
\* updates (the aff side winning if the outcome text contains "aff", then the
\* neg side winning if it contains "neg"); all carry the same period index.
C6_RowByRowReplayed ==
    /\ \A j, k \in 1..Len(updates) :
           /\ updates[j].period = updates[k].period
           /\ j < k => updates[j].row <= updates[k].row
    /\ \A j \in 1..Len(updates) : updates[j].row \in 1..Len(roundTable)
    /\ \A i \in 1..Len(roundTable) :
           LET us == UpdatesOfRow(i)
               row == roundTable[i]
               sides == (IF NamesAff(row.Win) THEN <<"aff">> ELSE <<>>)
                            \o (IF NamesNeg(row.Win) THEN <<"neg">> ELSE <<>>)
           IN  IF ~({row.Aff, row.Neg} \subseteq MapKeys)
               THEN us = <<>>
               ELSE /\ Len(us) = RoundWeight * Len(sides)
                    /\ \A j \in 1..Len(us) :
                           LET side == sides[((j - 1) % Len(sides)) + 1]
                           IN  IF side = "aff"
                               THEN /\ us[j].winner = IdentityOf(row.Aff)
                                    /\ us[j].loser = IdentityOf(row.Neg)
                               ELSE /\ us[j].winner = IdentityOf(row.Neg)
                                    /\ us[j].loser = IdentityOf(row.Aff)

\* A round of a major with two valid matches between different competitors:
\* four updates, the first two for the first row.
C6_Witness ==
    /\ Len(roundTable) = 2
    /\ RoundWeight = 2
    /\ ValidRows = {1, 2}
    /\ Len(updates) = 4
    /\ updates[1].row = 1
    /\ updates[2].row = 1
    /\ updates[3].row = 2
    /\ updates[1].winner # updates[1].loser
    /\ updates[1].winner # updates[3].winner

\* C7: period indices follow rounds.  The updates issued for the k-th round
\* file of a run carry period index k-1, match_counter counts the rounds
\* processed whatever their rows and weight, and the round files of a
\* tournament are processed in sorted filename order.
C7_PeriodPerRound ==
    /\ match_counter = roundsDone
    /\ \A j \in 1..Len(updates) : updates[j].period = roundsDone - 1
    /\ LET order == doneFiles \o files
       IN  \A j \in 1..(Len(order) - 1) : StrLess(order[j], order[j + 1])

\* The third round of a run, the second round file of a major tournament
\* that is the second of the config: two rows, each applied twice.
C7_Witness ==
    /\ roundsDone = 3
    /\ tIdx = 2
    /\ Len(doneFiles) = 2
    /\ RoundWeight = 2
    /\ Len(roundTable) = 2
    /\ Len(updates) = 4
    /\ updates[4].period = 2

\* C10: in the rankings two competitors with equal adjusted rating are
\* ordered by identity, so that the order does not depend on the order of the
\* rows of the debaters table.
C10_TiesOrderedByIdentity ==
    pc = "done"
        => \A i \in 1..(Len(rankings) - 1) :
               rankings[i].AdjustedRating = rankings[i + 1].AdjustedRating
                   => StrLess(rankings[i].Hash, rankings[i + 1].Hash)

\* C11: generate_rankings emits exactly one row per registered competitor;
\* the rows are in non-increasing order of adjusted rating; the Rank column
\* is 1..N in that order, without gap or repeat; each row keeps the raw
\* rating and deviation of its competitor next to the adjusted rating, which
\* is the rating minus twice the deviation.  When nobody is registered,
\* generate_rankings raises and emits no row.
C11_OneRankedRowPerCompetitor ==
    /\ pc = "done" =>
           /\ Len(rankings) = Cardinality(DOMAIN ratings)
           /\ {rankings[i].Hash : i \in 1..Len(rankings)} = DOMAIN ratings
           /\ \A i \in 1..Len(rankings) :
                  /\ rankings[i].Rank = i
                  /\ rankings[i].Rating = Mu(ratings[rankings[i].Hash])
                  /\ rankings[i].Deviation = Phi(ratings[rankings[i].Hash])
                  /\ rankings[i].AdjustedRating =
                         rankings[i].Rating - 2 * rankings[i].Deviation
           /\ \A i \in 1..(Len(rankings) - 1) :
                  rankings[i].AdjustedRating >= rankings[i + 1].AdjustedRating
    /\ pc = "failed" => (rankings = <<>> /\ DOMAIN ratings = {})

\* Two competitors are ranked, and the one registered second comes first:
\* it won a match against the other.
C11_Witness ==
    /\ pc = "done"
    /\ Len(rankings) = 2
    /\ Len(debaters) = 2
    /\ rankings[1].Hash = debaters[2].hash
    /\ rankings[1].AdjustedRating > rankings[2].AdjustedRating
    /\ rankings[1].Matches > 0

\* The winner and the loser the outcome text of row i designates.
DesignatedWinner(i) ==
    IF NamesAff(roundTable[i].Win)
    THEN IdentityOf(roundTable[i].Aff) ELSE IdentityOf(roundTable[i].Neg)

DesignatedLoser(i) ==
    IF NamesAff(roundTable[i].Win)
    THEN IdentityOf(roundTable[i].Neg) ELSE IdentityOf(roundTable[i].Aff)

\* C12: in every round of a tournament, each valid row with exactly one
\* designated winner produces exactly w engine updates, each with that winner
\* first and the other side second, where w is 2 if the tournament's name is
\* in the majors of the config and 1 otherwise: w depends on the tournament
\* alone, so it is the same for every round and every match of it.
C12_WeightByTournament ==
    \A i \in ValidRows :
        /\ Len(UpdatesOfRow(i)) = RoundWeight
        /\ \A j \in 1..Len(UpdatesOfRow(i)) :
               /\ UpdatesOfRow(i)[j].winner = DesignatedWinner(i)
               /\ UpdatesOfRow(i)[j].loser = DesignatedLoser(i)

\* The second round of a major: the aff side wins the first row, the neg side
\* the second, and each row has its two updates.
C12_Witness ==
    /\ Len(doneFiles) = 2
    /\ Len(roundTable) = 2
    /\ RoundWeight = 2
    /\ ValidRows = {1, 2}
    /\ NamesAff(roundTable[1].Win)
    /\ NamesNeg(roundTable[2].Win)
    /\ Len(updates) = 4
    /\ updates[1].winner = IdentityOf(Code1)
    /\ updates[2].winner = IdentityOf(Code1)
    /\ updates[3].winner = IdentityOf(Code2)
    /\ updates[4].loser = IdentityOf(Code1)
    /\ IdentityOf(Code1) # IdentityOf(Code2)

\* The same for a regular tournament: one update per row.
C12_WitnessRegular ==
    /\ Len(doneFiles) = 2
    /\ Len(roundTable) = 2
    /\ RoundWeight = 1
    /\ ValidRows = {1, 2}
    /\ Len(updates) = 2

====
